---- MODULE Spec2Model ----
(***************************************************************************)
(* Model of rm_runner.RemoteRunner (src/src/rm_runner/remote_runner.py):   *)
(* construction, launch, _start, the keypair / security-group creation    *)
(* with their name-conflict recovery, the ssh connection loop, staging,   *)
(* command execution and _stop.  The EC2 provider and the ssh channel are *)
(* collaborators: every call to them may succeed or raise.                *)
(***************************************************************************)
EXTENDS Naturals, Sequences, FiniteSets

VARIABLES
    pc,             \* position of the single thread of control
    instance_type,  \* constructor argument, a sequence of characters
    source_dir,     \* launch argument: NoneVal or a local path
    ami_id,         \* self.ami_id
    provKeys,       \* provider: keypairs named run_name
    provGroups,     \* provider: security groups named run_name
    provIngress,    \* provider: group ids with the tcp/22 ingress rule
    provInstance,   \* provider: state of the instance of this run
    key,            \* local `key` of _create_ec2_key_pair / _start
    sg_id,          \* local `sg_id` of _create_ec2_security_group_with_ssh_ingress
    start_sg_id,    \* local `sg_id` of _start
    has_instance,   \* self.instance is set
    has_ssh_client, \* self.ssh_client is set
    connected,      \* the paramiko client holds an open session
    t0,             \* loop counter of _setup_ssh_connection
    chunks,         \* non-empty reads made by _exec_command
    pending,        \* exception in flight while a finally block runs
    caught,         \* exception bound to `e` in launch's except block
    calls,          \* every collaborator call made so far, in order
    outcome,        \* "running", "returned" or "raised"
    raised,         \* the exception that left __init__ or launch
    \* Several controllers of one process (the run identity):
    default_run_name, \* the default of __init__'s run_name parameter
    run_name,         \* self.run_name of each controller
    used_default,     \* the controller was constructed without a run name
    cpc,              \* position of each controller
    provNamed,        \* provider: the named resources, each with its creator
    foreignDeletes    \* deletions of a resource another controller created

vars == <<pc, instance_type, source_dir, ami_id, provKeys, provGroups,
          provIngress, provInstance, key, sg_id, start_sg_id, has_instance,
          has_ssh_client, connected, t0, chunks, pending, caught, calls,
          outcome, raised, default_run_name, run_name, used_default, cpc,
          provNamed, foreignDeletes>>

\* The state of the single launch modelled step by step.
launchVars == <<pc, instance_type, source_dir, ami_id, provKeys, provGroups,
                provIngress, provInstance, key, sg_id, start_sg_id, has_instance,
                has_ssh_client, connected, t0, chunks, pending, caught, calls,
                outcome, raised>>

\* The state of the controllers sharing one process and one provider account.
identityVars == <<default_run_name, run_name, used_default, cpc, provNamed,
                  foreignDeletes>>

\* ---------------------------------------------------------------- bounds
\* Largest number of non-empty output chunks the remote command produces.
MaxChunks == 2

\* Letters of the generator's alphabet taken into account.
AlphabetBound == 2
\* Controllers constructed in the process.
MaxControllers == 3

\* ------------------------------------------------------------- constants
\* generate('abcdefghijklm', 4): the length of the token.
TokenLen == 4
\* `while t0 < 10` in _setup_ssh_connection.
MaxAttempts == 10

NoneVal == "None"
Unbound == "unbound"
NoError == [op |-> "none", msg |-> <<>>]

\* Character sequences of the instance classes the constructor is given.
T3Micro == <<"t", "3", ".", "m", "i", "c", "r", "o">>
Dl1_24xlarge == <<"d", "l", "1", ".", "2", "4", "x", "l", "a", "r", "g", "e">>
P3_2xlarge == <<"p", "3", ".", "2", "x", "l", "a", "r", "g", "e">>
D2_xlarge == <<"d", "2", ".", "x", "l", "a", "r", "g", "e">>
Dl2q_24xlarge == <<"d", "l", "2", "q", ".", "2", "4", "x", "l", "a", "r", "g", "e">>
\* The default of the constructor's instance_type parameter.
DefaultInstanceType == T3Micro
InstanceTypes == {T3Micro, Dl1_24xlarge, P3_2xlarge, D2_xlarge, Dl2q_24xlarge}
SourceDirs == {NoneVal, "./src"}

\* Python's `sub in s` on strings / sequences.
Contains(sub, s) ==
    \E i \in 1..(Len(s) + 1) :
        /\ i + Len(sub) - 1 <= Len(s)
        /\ SubSeq(s, i, i + Len(sub) - 1) = sub

\* Attributes __init__ sets on self, plus those _start sets later.
InitAttributes == {"session", "ec2_client", "ec2_resource", "run_name",
                   "instance_type", "container", "ami_id"}
HasAttr(a) ==
    \/ a \in InitAttributes
    \/ a = "instance" /\ has_instance
    \/ a = "ssh_client" /\ has_ssh_client

AttributeError(a) == [op |-> "python", msg |-> <<"AttributeError", a>>]
UnboundLocalError(v) == [op |-> "python", msg |-> <<"UnboundLocalError", v>>]
NotImplementedError == [op |-> "python", msg |-> <<"NotImplementedError", "only habana support">>]

\* Errors a collaborator call can raise.
DuplicateError(op) == [op |-> op, msg |-> <<"Invalid", "Duplicate">>]
OtherError(op) == [op |-> op, msg |-> <<"RequestFailed">>]

\* The test written against another provider's error code.
IsDuplicateWrongCode(e) == Contains(<<"AlreadyExists">>, e.msg)

\* `"Duplicate" in str(e)`
IsDuplicate(e) == Contains(<<"Duplicate">>, e.msg)

\* A collaborator call as recorded: the operation, the exception it raised
\* (NoError when it returned) and its distinguishing argument.
Call(op, err, arg) == [op |-> op, ok |-> (err = NoError), err |-> err, arg |-> arg]
Log(op, err, arg) == calls' = Append(calls, Call(op, err, arg))

\* An exception leaves launch (or __init__): nothing else runs.
Raise(e) ==
    /\ pc' = "done"
    /\ outcome' = "raised"
    /\ raised' = e

\* generate('abcdefghijklm', ...): the alphabet, in order.
Alphabet == <<"a", "b", "c", "d", "e", "f", "g", "h", "i", "j", "k", "l", "m">>
Min(a, b) == IF a < b THEN a ELSE b
\* The tokens generate can return, over the letters taken into account.
Tokens == [1..TokenLen -> {Alphabet[i] : i \in 1..Min(AlphabetBound, Len(Alphabet))}]
\* A run name the caller passes explicitly.
ExplicitNames == {<<"j", "o", "b">>}
NoName == <<>>
Controllers == 1..MaxControllers

\* No class defined, no controller constructed yet.
IdentityInit ==
    /\ default_run_name = NoName
    /\ run_name = [c \in Controllers |-> NoName]
    /\ used_default = [c \in Controllers |-> FALSE]
    /\ cpc = [c \in Controllers |-> "new"]
    /\ provNamed = {}
    /\ foreignDeletes = {}

Init ==
    /\ IdentityInit
    /\ pc = "init"
    /\ instance_type \in InstanceTypes
    /\ source_dir \in SourceDirs
    /\ ami_id = Unbound
    /\ provKeys \in {{}, {"key-stale"}}
    /\ provGroups \in {{}, {"sg-stale"}}
    /\ provIngress = provGroups
    /\ provInstance = "none"
    /\ key = Unbound
    /\ sg_id = Unbound
    /\ start_sg_id = Unbound
    /\ has_instance = FALSE
    /\ has_ssh_client = FALSE
    /\ connected = FALSE
    /\ t0 = 0
    /\ chunks = 0
    /\ pending = NoError
    /\ caught = NoError
    /\ calls = <<>>
    /\ outcome = "running"
    /\ raised = NoError

\* ------------------------------------------------------------- __init__
AmiForDl1 == "ami-06d20e48ee8d06029"
SupportedMarker == <<"d", "l", "1">>

\* The family test shortened to the two letters "dl".
GetAmiByTwoLetters(t) ==
    IF Contains(<<"d", "l">>, t) THEN AmiForDl1 ELSE Unbound

\* _get_ami_from_instance_type: the image id, or Unbound when it raises.
GetAmiFromInstanceType(t) ==
    IF Contains(SupportedMarker, t) THEN AmiForDl1 ELSE Unbound

Construct ==
    /\ UNCHANGED identityVars
    /\ pc = "init"
    /\ IF GetAmiFromInstanceType(instance_type) = Unbound
       THEN /\ Raise(NotImplementedError)
            /\ UNCHANGED ami_id
       ELSE /\ ami_id' = GetAmiFromInstanceType(instance_type)
            /\ pc' = "idle"
            /\ UNCHANGED <<outcome, raised>>
    /\ UNCHANGED <<instance_type, source_dir, provKeys, provGroups, provIngress,
                   provInstance, key, sg_id, start_sg_id, has_instance,
                   has_ssh_client, connected, t0, chunks, pending, caught, calls>>

\* ---------------------------------------------------------------- provider
RunName == "rm-runner"

\* What a create call under a unique name can do: the name is taken (the
\* provider answers Duplicate) or the call succeeds; any call can fail otherwise.
CreateOutcomes(op, existing) ==
    IF existing # {} THEN {DuplicateError(op), OtherError(op)}
    ELSE {NoError, OtherError(op)}

\* What any other call can do.
CallOutcomes(op) == {NoError, OtherError(op)}

\* launch line 113: _start is called outside the try block, so an exception
\* of _start leaves launch directly.
Launch ==
    /\ UNCHANGED identityVars
    /\ pc = "idle"
    /\ pc' = "create_key_pair"
    /\ UNCHANGED <<instance_type, source_dir, ami_id, provKeys, provGroups,
                   provIngress, provInstance, key, sg_id, start_sg_id,
                   has_instance, has_ssh_client, connected, t0, chunks, pending,
                   caught, calls, outcome, raised>>

\* ---------------------------------------------------- _create_ec2_key_pair
\* The attribute the retry of line 133 reads the client from.
KeyRetryClient == "ec2_client2"

\* Line 129 and the except clause's test of line 131.
CreateKeyPair ==
    /\ UNCHANGED identityVars
    /\ pc = "create_key_pair"
    /\ \E r \in CreateOutcomes("create_key_pair", provKeys) :
        /\ Log("create_key_pair", r, RunName)
        /\ IF r = NoError
           THEN /\ provKeys' = provKeys \cup {"key-new"}
                /\ key' = "key-new"
                /\ pc' = "create_security_group"
                /\ UNCHANGED <<outcome, raised>>
           ELSE IF IsDuplicate(r)
           THEN /\ pc' = "kp_delete_stale"
                /\ UNCHANGED <<provKeys, key, outcome, raised>>
           ELSE /\ Raise(r)
                /\ UNCHANGED <<provKeys, key>>
    /\ UNCHANGED <<instance_type, source_dir, ami_id, provGroups, provIngress,
                   provInstance, sg_id, start_sg_id, has_instance,
                   has_ssh_client, connected, t0, chunks, pending, caught>>

\* Line 132.
KeyDeleteStale ==
    /\ UNCHANGED identityVars
    /\ pc = "kp_delete_stale"
    /\ \E r \in CallOutcomes("delete_key_pair") :
        /\ Log("delete_key_pair", r, RunName)
        /\ IF r = NoError
           THEN /\ provKeys' = {}
                /\ pc' = "kp_retry"
                /\ UNCHANGED <<outcome, raised>>
           ELSE /\ Raise(r)
                /\ UNCHANGED provKeys
    /\ UNCHANGED <<instance_type, source_dir, ami_id, provGroups, provIngress,
                   provInstance, key, sg_id, start_sg_id, has_instance,
                   has_ssh_client, connected, t0, chunks, pending, caught>>

\* Line 133: the attribute lookup comes first; the provider is called only
\* when the attribute exists.
KeyRetry ==
    /\ UNCHANGED identityVars
    /\ pc = "kp_retry"
    /\ IF HasAttr(KeyRetryClient)
       THEN \E r \in CreateOutcomes("create_key_pair", provKeys) :
            /\ Log("create_key_pair", r, RunName)
            /\ IF r = NoError
               THEN /\ provKeys' = provKeys \cup {"key-new"}
                    /\ key' = "key-new"
                    /\ pc' = "create_security_group"
                    /\ UNCHANGED <<outcome, raised>>
               ELSE /\ Raise(r)
                    /\ UNCHANGED <<provKeys, key>>
       ELSE /\ Raise(AttributeError(KeyRetryClient))
            /\ UNCHANGED <<provKeys, key, calls>>
    /\ UNCHANGED <<instance_type, source_dir, ami_id, provGroups, provIngress,
                   provInstance, sg_id, start_sg_id, has_instance,
                   has_ssh_client, connected, t0, chunks, pending, caught>>

\* ------------------------- _create_ec2_security_group_with_ssh_ingress
\* Lines 141-143 and the except clause's test of line 145; `raise e` of line
\* 151 leaves the exception in flight while the finally block runs.
CreateSecurityGroup ==
    /\ UNCHANGED identityVars
    /\ pc = "create_security_group"
    /\ \E r \in CreateOutcomes("create_security_group", provGroups) :
        /\ Log("create_security_group", r, RunName)
        /\ IF r = NoError
           THEN /\ provGroups' = provGroups \cup {"sg-new"}
                /\ sg_id' = "sg-new"
                /\ pc' = "sg_finally"
                /\ UNCHANGED pending
           ELSE IF IsDuplicate(r)
           THEN /\ pc' = "sg_delete_stale"
                /\ UNCHANGED <<provGroups, sg_id, pending>>
           ELSE /\ pending' = r
                /\ pc' = "sg_finally"
                /\ UNCHANGED <<provGroups, sg_id>>
    /\ UNCHANGED <<instance_type, source_dir, ami_id, provKeys, provIngress,
                   provInstance, key, start_sg_id, has_instance, has_ssh_client,
                   connected, t0, chunks, caught, outcome, raised>>

\* Line 146.
SgDeleteStale ==
    /\ UNCHANGED identityVars
    /\ pc = "sg_delete_stale"
    /\ \E r \in CallOutcomes("delete_security_group") :
        /\ Log("delete_security_group", r, RunName)
        /\ IF r = NoError
           THEN /\ provGroups' = {}
                /\ provIngress' = {}
                /\ pc' = "sg_retry"
                /\ UNCHANGED pending
           ELSE /\ pending' = r
                /\ pc' = "sg_finally"
                /\ UNCHANGED <<provGroups, provIngress>>
    /\ UNCHANGED <<instance_type, source_dir, ami_id, provKeys, provInstance,
                   key, sg_id, start_sg_id, has_instance, has_ssh_client,
                   connected, t0, chunks, caught, outcome, raised>>

\* Lines 147-149.
SgRetry ==
    /\ UNCHANGED identityVars
    /\ pc = "sg_retry"
    /\ \E r \in CreateOutcomes("create_security_group", provGroups) :
        /\ Log("create_security_group", r, RunName)
        /\ IF r = NoError
           THEN /\ provGroups' = provGroups \cup {"sg-new"}
                /\ sg_id' = "sg-new"
                /\ UNCHANGED pending
           ELSE /\ pending' = r
                /\ UNCHANGED <<provGroups, sg_id>>
        /\ pc' = "sg_finally"
    /\ UNCHANGED <<instance_type, source_dir, ami_id, provKeys, provIngress,
                   provInstance, key, start_sg_id, has_instance, has_ssh_client,
                   connected, t0, chunks, caught, outcome, raised>>

\* Lines 152-157: the finally block reads sg_id, which is unbound whenever no
\* create call has succeeded; the UnboundLocalError replaces the exception in
\* flight.  After a successful authorize the exception in flight, if any, goes on.
SgFinally ==
    /\ UNCHANGED identityVars
    /\ pc = "sg_finally"
    /\ IF sg_id = Unbound
       THEN /\ Raise(UnboundLocalError("sg_id"))
            /\ UNCHANGED <<provIngress, start_sg_id, calls>>
       ELSE \E r \in CallOutcomes("authorize_security_group_ingress") :
            /\ Log("authorize_security_group_ingress", r, sg_id)
            /\ IF r # NoError
               THEN /\ Raise(r)
                    /\ UNCHANGED <<provIngress, start_sg_id>>
               ELSE IF pending # NoError
               THEN /\ Raise(pending)
                    /\ provIngress' = provIngress \cup {sg_id}
                    /\ UNCHANGED start_sg_id
               ELSE /\ provIngress' = provIngress \cup {sg_id}
                    /\ start_sg_id' = sg_id
                    /\ pc' = "run_instances"
                    /\ UNCHANGED <<outcome, raised>>
    /\ UNCHANGED <<instance_type, source_dir, ami_id, provKeys, provGroups,
                   provInstance, key, sg_id, has_instance, has_ssh_client,
                   connected, t0, chunks, pending, caught>>

\* ------------------------------------------------------------------ _start
\* Lines 54-57 with _run_ec2_instance (lines 162-178).
RunInstances ==
    /\ UNCHANGED identityVars
    /\ pc = "run_instances"
    /\ \E r \in CallOutcomes("run_instances") :
        /\ Log("run_instances", r, start_sg_id)
        /\ IF r = NoError
           THEN /\ provInstance' = "pending"
                /\ has_instance' = TRUE
                /\ pc' = "wait_until_running"
                /\ UNCHANGED <<outcome, raised>>
           ELSE /\ Raise(r)
                /\ UNCHANGED <<provInstance, has_instance>>
    /\ UNCHANGED <<instance_type, source_dir, ami_id, provKeys, provGroups,
                   provIngress, key, sg_id, start_sg_id, has_ssh_client,
                   connected, t0, chunks, pending, caught>>

\* Line 59.
WaitUntilRunning ==
    /\ UNCHANGED identityVars
    /\ pc = "wait_until_running"
    /\ \E r \in CallOutcomes("wait_until_running") :
        /\ Log("wait_until_running", r, RunName)
        /\ IF r = NoError
           THEN /\ provInstance' = "running"
                /\ pc' = "public_dns_name"
                /\ UNCHANGED <<outcome, raised>>
           ELSE /\ Raise(r)
                /\ UNCHANGED provInstance
    /\ UNCHANGED <<instance_type, source_dir, ami_id, provKeys, provGroups,
                   provIngress, key, sg_id, start_sg_id, has_instance,
                   has_ssh_client, connected, t0, chunks, pending, caught>>

\* Line 60: the resource attribute is loaded from the provider on first read.
PublicDnsName ==
    /\ UNCHANGED identityVars
    /\ pc = "public_dns_name"
    /\ \E r \in CallOutcomes("describe_instances") :
        /\ Log("describe_instances", r, RunName)
        /\ IF r = NoError
           THEN /\ pc' = "ssh_connect"
                /\ UNCHANGED <<outcome, raised>>
           ELSE Raise(r)
    /\ UNCHANGED <<instance_type, source_dir, ami_id, provKeys, provGroups,
                   provIngress, provInstance, key, sg_id, start_sg_id,
                   has_instance, has_ssh_client, connected, t0, chunks, pending,
                   caught>>

\* ---------------------------------------------------- _setup_ssh_connection
\* The loop test written with <=, one attempt too many.
LoopContinuesInclusive(t) == t <= MaxAttempts

\* `while t0 < 10` (line 197).
LoopContinues(t) == t < MaxAttempts

\* The except clause without its `t0 += 1`.
AfterFailedAttemptStuck(t) == t

\* `t0 += 1` (line 203).
AfterFailedAttempt(t) == t + 1

\* One turn of the loop of lines 197-204, and, when the loop ends, the return
\* of line 205 with the assignment of line 62.  A failed attempt is swallowed
\* by `except Exception`; the client is returned whether or not it connected.
SshConnect ==
    /\ UNCHANGED identityVars
    /\ pc = "ssh_connect"
    /\ LoopContinues(t0)
    /\ \E r \in CallOutcomes("connect") :
        /\ Log("connect", r, RunName)
        /\ IF r = NoError
           THEN /\ connected' = TRUE
                /\ has_ssh_client' = TRUE
                /\ pc' = "launch_try"
                /\ UNCHANGED t0
           ELSE /\ t0' = AfterFailedAttempt(t0)
                /\ IF LoopContinues(AfterFailedAttempt(t0))
                   THEN UNCHANGED <<pc, has_ssh_client>>
                   ELSE /\ has_ssh_client' = TRUE
                        /\ pc' = "launch_try"
                /\ UNCHANGED connected
    /\ UNCHANGED <<instance_type, source_dir, ami_id, provKeys, provGroups,
                   provIngress, provInstance, key, sg_id, start_sg_id,
                   has_instance, chunks, pending, caught, outcome, raised>>

\* ------------------------------------------------------------------ launch
DefaultWorkDir == "/home/ubuntu"
RemotePath == "/home/ubuntu/test"

\* Line 116: `if source_dir:`.
LaunchTry ==
    /\ UNCHANGED identityVars
    /\ pc = "launch_try"
    /\ pc' = IF source_dir # NoneVal THEN "upload_data" ELSE "exec_command"
    /\ UNCHANGED <<instance_type, source_dir, ami_id, provKeys, provGroups,
                   provIngress, provInstance, key, sg_id, start_sg_id,
                   has_instance, has_ssh_client, connected, t0, chunks, pending,
                   caught, calls, outcome, raised>>

\* The attribute _upload_data reads the ssh client from (line 93).
UploadClient == "ssh_clientssh"

\* An except clause that runs the command again instead of tearing down.
ExceptRetries(e) ==
    /\ caught' = e
    /\ pc' = "exec_command"

\* Launch's except clause (lines 119-121): bind e, then call _stop.
Except(e) ==
    /\ caught' = e
    /\ pc' = "stop_terminate"

\* _upload_data (lines 92-95), called at line 117 inside the try block.
UploadData ==
    /\ UNCHANGED identityVars
    /\ pc = "upload_data"
    /\ IF HasAttr(UploadClient)
       THEN \E r \in (IF connected THEN CallOutcomes("scp_put")
                      ELSE {OtherError("scp_put")}) :
            /\ Log("scp_put", r, RemotePath)
            /\ IF r = NoError
               THEN /\ source_dir' = RemotePath
                    /\ pc' = "exec_command"
                    /\ UNCHANGED caught
               ELSE /\ Except(r)
                    /\ UNCHANGED source_dir
       ELSE /\ Except(AttributeError(UploadClient))
            /\ UNCHANGED <<source_dir, calls>>
    /\ UNCHANGED <<instance_type, ami_id, provKeys, provGroups, provIngress,
                   provInstance, key, sg_id, start_sg_id, has_instance,
                   has_ssh_client, connected, t0, chunks, pending, outcome,
                   raised>>

\* The default working directory confused with the staging path.
ExecSourceDirStaged(d) == IF d # NoneVal THEN d ELSE RemotePath

\* Line 68.
ExecSourceDir(d) == IF d # NoneVal THEN d ELSE DefaultWorkDir

\* Lines 68-83: exec_command on the ssh client; a client that never
\* connected has no session to open a channel on, and the call raises.
ExecCommand ==
    /\ UNCHANGED identityVars
    /\ pc = "exec_command"
    /\ \E r \in (IF connected THEN CallOutcomes("exec_command")
                 ELSE {OtherError("exec_command")}) :
        /\ Log("exec_command", r, ExecSourceDir(source_dir))
        /\ IF r = NoError
           THEN /\ pc' = "recv"
                /\ UNCHANGED caught
           ELSE Except(r)
    /\ UNCHANGED <<instance_type, source_dir, ami_id, provKeys, provGroups,
                   provIngress, provInstance, key, sg_id, start_sg_id,
                   has_instance, has_ssh_client, connected, t0, chunks, pending,
                   outcome, raised>>

\* Lines 84-89: one read of the channel: a chunk, the empty read that ends
\* the loop, or an exception.
Recv ==
    /\ UNCHANGED identityVars
    /\ pc = "recv"
    /\ \/ /\ chunks < MaxChunks
          /\ Log("recv", NoError, "data")
          /\ chunks' = chunks + 1
          /\ UNCHANGED <<pc, caught>>
       \/ /\ Log("recv", NoError, "")
          /\ pc' = "stop_terminate"
          /\ UNCHANGED <<chunks, caught>>
       \/ /\ Log("recv", OtherError("recv"), "")
          /\ Except(OtherError("recv"))
          /\ UNCHANGED chunks
    /\ UNCHANGED <<instance_type, source_dir, ami_id, provKeys, provGroups,
                   provIngress, provInstance, key, sg_id, start_sg_id,
                   has_instance, has_ssh_client, connected, t0, pending,
                   outcome, raised>>

\* ------------------------------------------------------------------- _stop
\* _stop has no exception handling: a failing step leaves _stop, and with it
\* launch (from line 121 as from line 124), with that step's exception.
\* _stop without the wait of line 102.
AfterTerminateNoWait == "stop_delete_sg"

\* Where _stop goes on after terminate returned: the wait of line 102.
AfterTerminate == "stop_wait"

\* Line 100.
StopTerminate ==
    /\ UNCHANGED identityVars
    /\ pc = "stop_terminate"
    /\ \E r \in CallOutcomes("terminate") :
        /\ Log("terminate", r, RunName)
        /\ IF r = NoError
           THEN /\ provInstance' = "shutting-down"
                /\ pc' = AfterTerminate
                /\ UNCHANGED <<outcome, raised>>
           ELSE /\ Raise(r)
                /\ UNCHANGED provInstance
    /\ UNCHANGED <<instance_type, source_dir, ami_id, provKeys, provGroups,
                   provIngress, key, sg_id, start_sg_id, has_instance,
                   has_ssh_client, connected, t0, chunks, pending, caught>>

\* Line 102.
StopWait ==
    /\ UNCHANGED identityVars
    /\ pc = "stop_wait"
    /\ \E r \in CallOutcomes("wait_until_terminated") :
        /\ Log("wait_until_terminated", r, RunName)
        /\ IF r = NoError
           THEN /\ provInstance' = "terminated"
                /\ pc' = "stop_delete_sg"
                /\ UNCHANGED <<outcome, raised>>
           ELSE /\ Raise(r)
                /\ UNCHANGED provInstance
    /\ UNCHANGED <<instance_type, source_dir, ami_id, provKeys, provGroups,
                   provIngress, key, sg_id, start_sg_id, has_instance,
                   has_ssh_client, connected, t0, chunks, pending, caught>>

\* Line 105.
StopDeleteSg ==
    /\ UNCHANGED identityVars
    /\ pc = "stop_delete_sg"
    /\ \E r \in CallOutcomes("delete_security_group") :
        /\ Log("delete_security_group", r, RunName)
        /\ IF r = NoError
           THEN /\ provGroups' = {}
                /\ provIngress' = {}
                /\ pc' = "stop_delete_key"
                /\ UNCHANGED <<outcome, raised>>
           ELSE /\ Raise(r)
                /\ UNCHANGED <<provGroups, provIngress>>
    /\ UNCHANGED <<instance_type, source_dir, ami_id, provKeys, provInstance,
                   key, sg_id, start_sg_id, has_instance, has_ssh_client,
                   connected, t0, chunks, pending, caught>>

\* The except clause without its `raise e`: control falls through to line 124.
AfterStopFallsThrough(e) == IF e # NoError THEN "stop" ELSE "return"

\* What launch does once _stop has returned: `raise e` (line 122) in the
\* except clause, the return after line 125 otherwise.
AfterStop(e) == IF e # NoError THEN "raise" ELSE "return"

\* Line 108, and _stop's return into launch.
StopDeleteKey ==
    /\ UNCHANGED identityVars
    /\ pc = "stop_delete_key"
    /\ \E r \in CallOutcomes("delete_key_pair") :
        /\ Log("delete_key_pair", r, RunName)
        /\ IF r # NoError
           THEN /\ Raise(r)
                /\ UNCHANGED <<provKeys, caught>>
           ELSE /\ provKeys' = {}
                /\ IF AfterStop(caught) = "raise"
                   THEN /\ Raise(caught)
                        /\ UNCHANGED caught
                   ELSE IF AfterStop(caught) = "return"
                   THEN /\ pc' = "done"
                        /\ outcome' = "returned"
                        /\ UNCHANGED <<raised, caught>>
                   ELSE /\ pc' = "stop_terminate"
                        /\ caught' = NoError
                        /\ UNCHANGED <<outcome, raised>>
    /\ UNCHANGED <<instance_type, source_dir, ami_id, provGroups, provIngress,
                   provInstance, key, sg_id, start_sg_id, has_instance,
                   has_ssh_client, connected, t0, chunks, pending>>

Next ==
    \/ Construct
    \/ Launch
    \/ CreateKeyPair
    \/ KeyDeleteStale
    \/ KeyRetry
    \/ CreateSecurityGroup
    \/ SgDeleteStale
    \/ SgRetry
    \/ SgFinally
    \/ RunInstances
    \/ WaitUntilRunning
    \/ PublicDnsName
    \/ SshConnect
    \/ LaunchTry
    \/ UploadData
    \/ ExecCommand
    \/ Recv
    \/ StopTerminate
    \/ StopWait
    \/ StopDeleteSg
    \/ StopDeleteKey


Spec == Init /\ [][Next]_vars

\* ----------------------------------------------------- reading the call log
Done == pc = "done"
Idx == DOMAIN calls
Count(op) == Cardinality({i \in Idx : calls[i].op = op})
\* Calls of op made after position i.
CountAfter(op, i) == Cardinality({j \in Idx : j > i /\ calls[j].op = op})
AllCallsOk == \A i \in Idx : calls[i].ok
\* The steps of _stop.
TeardownOps == {"terminate", "wait_until_terminated", "delete_security_group",
                "delete_key_pair"}
\* _stop begins with terminate, so its invocations are the terminate calls.
StopInvocations == Count("terminate")
\* Every connection attempt of the loop failed.
AllAttemptsFailed == t0 = MaxAttempts
\* _start returned into launch.
StartCompleted == has_ssh_client

\* ----------------------------------------------------------------- claims

\* C1: in every run of launch, each of keypair, security group and instance
\* whose create call succeeded gets exactly one destroy attempt
\* (delete_key_pair, delete_security_group, terminate) made after that create,
\* before launch returns or raises.
C1_CreatedResourcesDestroyedOnce ==
    Done =>
        \A i \in Idx :
            calls[i].ok =>
                /\ calls[i].op = "create_key_pair" => CountAfter("delete_key_pair", i) = 1
                /\ calls[i].op = "create_security_group"
                       => CountAfter("delete_security_group", i) = 1
                /\ calls[i].op = "run_instances" => CountAfter("terminate", i) = 1

\* A failure after the instance was created: a failed wait, address lookup,
\* staging, execute or read, or the connection loop running out of attempts.
FailedAfterInstance ==
    \/ \E i \in Idx :
        /\ ~calls[i].ok
        /\ calls[i].op \in {"wait_until_running", "describe_instances", "scp_put",
                            "exec_command", "recv"}
    \/ AllAttemptsFailed
    \/ caught = AttributeError(UploadClient)

\* C2: when a failure occurs after the instance was created, launch ends
\* raising, and terminate, delete_security_group and delete_key_pair have each
\* been attempted after run_instances, and what launch raises is not an
\* error of a teardown step.
C2_FailureAfterInstanceTearsDown ==
    (Done /\ FailedAfterInstance) =>
        /\ outcome = "raised"
        /\ raised.op \notin TeardownOps
        /\ \E i \in Idx :
            /\ calls[i].op = "run_instances"
            /\ \A op \in {"terminate", "delete_security_group", "delete_key_pair"} :
                CountAfter(op, i) >= 1

\* launch raised the exception of a step of _stop.
TeardownErrorRaised ==
    /\ outcome = "raised"
    /\ StopInvocations >= 1
    /\ raised.op \in TeardownOps

\* C3: launch never raises a teardown error: after a failed workload it
\* raises the error that triggered the teardown, and after a successful
\* workload it returns whatever the teardown steps did.
C3_TeardownErrorNeverRaised ==
    /\ ~TeardownErrorRaised
    /\ (Done /\ StopInvocations >= 1 /\ caught # NoError) => raised = caught
    /\ (Done /\ StopInvocations >= 1 /\ caught = NoError) => outcome = "returned"

\* C4: once _stop has run, terminate, delete_security_group and
\* delete_key_pair have each been attempted, whichever of them failed.
C4_CleanupStepsIndependent ==
    (Done /\ StopInvocations >= 1) =>
        \E i \in Idx :
            /\ calls[i].op = "terminate"
            /\ CountAfter("delete_security_group", i) >= 1
            /\ CountAfter("delete_key_pair", i) >= 1

\* C5: when every connection attempt failed, launch raises the last
\* attempt's exception, neither stages nor runs the workload, and invokes
\* _stop exactly once.
C5_ConnectExhaustionPropagates ==
    (Done /\ AllAttemptsFailed) =>
        /\ outcome = "raised"
        /\ raised = OtherError("connect")
        /\ Count("scp_put") = 0
        /\ Count("exec_command") = 0
        /\ StopInvocations = 1

\* Positions of the calls of op, and the first of them.
Positions(op) == {i \in Idx : calls[i].op = op}
First(op) == CHOOSE i \in Positions(op) : \A j \in Positions(op) : i <= j

\* _create_ec2_key_pair met a keypair of that name and is no longer running.
KeyConflictHandled ==
    /\ Positions("create_key_pair") # {}
    /\ calls[First("create_key_pair")].err = DuplicateError("create_key_pair")
    /\ pc \notin {"create_key_pair", "kp_delete_stale", "kp_retry"}

\* C6: when the first create_key_pair failed on a duplicate name and the
\* stale keypair was deleted, create_key_pair is called a second time, and
\* when the provider then creates the keypair the operation returns its key
\* material and raises nothing.
C6_KeyPairConflictRecovered ==
    ( /\ KeyConflictHandled
      /\ calls[First("create_key_pair") + 1] = Call("delete_key_pair", NoError, RunName) )
    => /\ Count("create_key_pair") = 2
       /\ (\A i \in Positions("create_key_pair") : i # First("create_key_pair") => calls[i].ok)
              => (key = "key-new" /\ raised.op # "python")

\* _create_ec2_security_group_with_ssh_ingress met a group of that name and
\* is no longer running.
SgConflictHandled ==
    /\ Positions("create_security_group") # {}
    /\ calls[First("create_security_group")].err = DuplicateError("create_security_group")
    /\ pc \notin {"create_security_group", "sg_delete_stale", "sg_retry", "sg_finally"}

\* The calls the operation made after its first create, up to its end.
SgCallsAfterConflict ==
    LET f == First("create_security_group")
        ops == {"create_security_group", "delete_security_group",
                "authorize_security_group_ingress"}
        last == CHOOSE j \in f..Len(calls) :
                    /\ \A k \in (f + 1)..j : calls[k].op \in ops
                    /\ (j < Len(calls) => calls[j + 1].op \notin ops)
    IN  SubSeq(calls, f + 1, last)

\* The operation returned a group id to _start.
SgReturned == start_sg_id # Unbound

\* C7: when the first create_security_group failed on a duplicate name, the
\* operation first deletes the stale group; when the provider carries out
\* that delete, the retried create and the authorize call, the operation
\* has made exactly these three calls (one retry, one authorize of the new
\* group), returns the new group's id, and on its return exactly one group
\* of that name exists and holds the ingress rule.  It returns in no other way.
C7_SecurityGroupConflictRecovered ==
    SgConflictHandled =>
        /\ Len(SgCallsAfterConflict) >= 1
        /\ SgCallsAfterConflict[1].op = "delete_security_group"
        /\ Count("create_security_group") <= 2
        /\ SgReturned <=>
               SgCallsAfterConflict =
                   << Call("delete_security_group", NoError, RunName),
                      Call("create_security_group", NoError, RunName),
                      Call("authorize_security_group_ingress", NoError, "sg-new") >>
        /\ SgReturned => start_sg_id = "sg-new"
        /\ (\A k \in DOMAIN SgCallsAfterConflict : SgCallsAfterConflict[k].ok)
               => Len(SgCallsAfterConflict) = 3
        /\ pc = "run_instances" =>
               /\ provGroups = {"sg-new"}
               /\ provIngress = {"sg-new"}

\* The conflict was met and the operation returned the new group to _start.
C7_Witness ==
    /\ SgConflictHandled
    /\ pc = "run_instances"
    /\ start_sg_id = "sg-new"

\* C8: _stop is never invoked twice in a launch; a launch whose _start
\* completed ends with _stop invoked exactly once, and a launch whose _start
\* did not complete ends without _stop.
C8_TeardownOncePerLaunch ==
    /\ StopInvocations <= 1
    /\ (Done /\ StartCompleted) => StopInvocations = 1
    /\ (Done /\ ~StartCompleted) => StopInvocations = 0

\* A launch that failed in the workload and was torn down completely.
C8_Witness ==
    /\ Done
    /\ StartCompleted
    /\ caught # NoError
    /\ raised = caught
    /\ StopInvocations = 1

\* The supported family: the dl1 instance classes.
InSupportedFamily(t) == Len(t) >= 4 /\ SubSeq(t, 1, 4) = <<"d", "l", "1", ".">>

\* C9: for an instance class outside the dl1 family (the constructor's
\* default among them) construction raises NotImplementedError with no
\* collaborator call made and nothing created at the provider; for a class of
\* the family the image id is the one fixed, non-empty id.
C9_UnsupportedFailsBeforeProvider ==
    /\ ~InSupportedFamily(DefaultInstanceType)
    /\ (pc # "init" /\ ~InSupportedFamily(instance_type)) =>
           /\ Done
           /\ outcome = "raised"
           /\ raised = NotImplementedError
           /\ calls = <<>>
           /\ "key-new" \notin provKeys
           /\ "sg-new" \notin provGroups
           /\ provInstance = "none"
    /\ (pc # "init" /\ InSupportedFamily(instance_type)) =>
           /\ ami_id = AmiForDl1
           /\ ami_id # ""
           /\ ami_id # Unbound

\* Construction with the default instance class has failed.
C9_Witness ==
    /\ instance_type = DefaultInstanceType
    /\ Done
    /\ raised = NotImplementedError

IsRecv(c) == c.op = "recv"
NotRecv(c) == c.op # "recv"
OpOf(c) == c.op
OpsOf(cs) == [i \in DOMAIN cs |-> OpOf(cs[i])]

\* The collaborator calls of a launch in which nothing fails, reads aside.
HappyPathOps ==
    << "create_key_pair", "create_security_group",
       "authorize_security_group_ingress", "run_instances", "wait_until_running",
       "describe_instances", "connect", "exec_command", "terminate",
       "wait_until_terminated", "delete_security_group", "delete_key_pair" >>

\* C10: with a supported instance class, no source_dir and no collaborator
\* call failing, launch never raises, and when it ends it has returned after
\* exactly the calls of HappyPathOps in that order, each once, the command
\* having been executed with working directory /home/ubuntu, without staging.
C10_HappyPathSequence ==
    (InSupportedFamily(instance_type) /\ source_dir = NoneVal /\ AllCallsOk) =>
        /\ outcome # "raised"
        /\ Done =>
            /\ outcome = "returned"
            /\ OpsOf(SelectSeq(calls, NotRecv)) = HappyPathOps
            /\ Count("scp_put") = 0
            /\ \A i \in Positions("exec_command") : calls[i].arg = "/home/ubuntu"
            /\ \A i \in Idx :
                   IsRecv(calls[i]) <=> (First("exec_command") < i /\ i < First("terminate"))

\* A launch without source_dir in which nothing failed has returned.
C10_Witness ==
    /\ Done
    /\ outcome = "returned"
    /\ source_dir = NoneVal
    /\ AllCallsOk
    /\ chunks >= 1

\* The successful connection attempts.
OkConnects == {i \in Positions("connect") : calls[i].ok}

\* C11: the connection loop makes at most 10 attempts; when attempt k is the
\* first to succeed, the k-1 attempts before it failed, it is the last
\* attempt made, and the connected client is what _start is given.
C11_ConnectAttemptsBounded ==
    /\ Count("connect") <= 10
    /\ t0 <= 10
    /\ \A i \in OkConnects :
        /\ \A j \in Positions("connect") : j <= i
        /\ Count("connect") = t0 + 1
        /\ Count("connect") = Cardinality({j \in Positions("connect") : ~calls[j].ok}) + 1
        /\ connected
        /\ has_ssh_client
    /\ connected <=> OkConnects # {}
    /\ (OkConnects = {} /\ pc = "ssh_connect") => Count("connect") = t0

\* The tenth attempt was the first to succeed.
C11_Witness ==
    /\ OkConnects # {}
    /\ Count("connect") = 10
    /\ connected
    /\ pc = "launch_try"

\* The calls _stop has made so far: terminate and what follows it.
StopCalls ==
    IF Positions("terminate") = {} THEN <<>>
    ELSE SubSeq(calls, First("terminate"), Len(calls))

\* _stop ran to its end with no step failing.
StopCompletedClean ==
    /\ Done
    /\ StopCalls # <<>>
    /\ \A i \in DOMAIN StopCalls : StopCalls[i].ok

\* C12: while no step of _stop fails its calls are, in order, terminate,
\* wait_until_terminated, delete_security_group, delete_key_pair; a _stop
\* that ends with no failure has made all four, and the security group is
\* deleted only once the instance is terminated.
C12_StopOrder ==
    /\ (\A i \in DOMAIN StopCalls : StopCalls[i].ok) =>
           /\ Len(StopCalls) <= 4
           /\ OpsOf(StopCalls) =
                  SubSeq(<< "terminate", "wait_until_terminated",
                            "delete_security_group", "delete_key_pair" >>,
                         1, Len(StopCalls))
    /\ StopCompletedClean => Len(StopCalls) = 4
    /\ \A i \in DOMAIN StopCalls :
           StopCalls[i].op = "delete_security_group" =>
               \E j \in 1..(i - 1) :
                   StopCalls[j] = Call("wait_until_terminated", NoError, RunName)
    /\ pc = "stop_delete_sg" => provInstance = "terminated"

\* _stop has run to its end with every step succeeding.
C12_Witness ==
    /\ StopCompletedClean
    /\ Len(StopCalls) = 4

\* The positions of control inside the two create operations.
InCreateOperation ==
    pc \in {"create_key_pair", "kp_delete_stale", "kp_retry",
            "create_security_group", "sg_delete_stale", "sg_retry", "sg_finally"}

\* The create operation for op ended on a first create call that failed
\* with an error other than a name conflict.
NonConflictFailure(op) ==
    /\ Positions(op) # {}
    /\ calls[First(op)].err = OtherError(op)
    /\ ~InCreateOperation

\* C13: for keypair and security-group creation alike, a create failure
\* that is no name conflict leaves the operation as that same error, the
\* failed create being the last provider call made (no delete, no retry, no
\* authorize).
C13_NonConflictFailurePropagates ==
    \A op \in {"create_key_pair", "create_security_group"} :
        NonConflictFailure(op) =>
            /\ Done
            /\ raised = OtherError(op)
            /\ Len(calls) = First(op)

\* C14: a launch given a source_dir, in which no collaborator call fails,
\* stages once before it executes, executes the command once with the
\* staging path /home/ubuntu/test as working directory and returns after
\* teardown; a launch without source_dir executes in /home/ubuntu.
C14_StagedRunUsesRemotePath ==
    /\ (Done /\ StartCompleted /\ source_dir # NoneVal /\ AllCallsOk) =>
           /\ outcome = "returned"
           /\ Count("scp_put") = 1
           /\ Count("exec_command") = 1
           /\ First("scp_put") < First("exec_command")
           /\ calls[First("exec_command")].arg = "/home/ubuntu/test"
           /\ StopInvocations = 1
    /\ source_dir = NoneVal =>
           \A i \in Positions("exec_command") : calls[i].arg = "/home/ubuntu"

\* The calls of _start.
ProvisioningOps == {"create_key_pair", "create_security_group",
                    "authorize_security_group_ingress", "run_instances",
                    "wait_until_running", "describe_instances", "connect"}

\* C15: in one launch run_instances is called at most once, create_key_pair
\* and create_security_group at most twice each and a second time only after
\* a name conflict, the command is executed at most once, staging is
\* attempted at most once, and no call of _start follows the start of _stop.
C15_NoRetryBeyondRecovery ==
    /\ Count("run_instances") <= 1
    /\ Count("create_key_pair") <= 2
    /\ Count("create_security_group") <= 2
    /\ Count("exec_command") <= 1
    /\ Count("scp_put") <= 1
    /\ Count("wait_until_running") <= 1
    /\ \A op \in {"create_key_pair", "create_security_group"} :
           Count(op) = 2 => calls[First(op)].err = DuplicateError(op)
    /\ \A i \in Positions("terminate") :
           \A j \in Idx : j > i => calls[j].op \notin ProvisioningOps

\* A launch that recovered from a name conflict, needed several connection
\* attempts, failed in the command and was torn down.
C15_Witness ==
    /\ Done
    /\ Count("create_security_group") = 2
    /\ Count("connect") >= 2
    /\ Count("exec_command") = 1
    /\ caught = OtherError("exec_command")
    /\ StopInvocations = 1

\* ------------------------------------------------------- the run identity
\* Several controllers constructed in one process, against one provider
\* account.  Each operation is taken as a whole, with the provider carrying
\* out every call: these are runs the program can make, not all of them.

Named(kind, name) == {r \in provNamed : r.kind = kind /\ r.name = name}
\* Deleting by name removes the resource whoever created it.
DeleteNamed(kind, name) == provNamed \ Named(kind, name)
\* What controller c deletes of other controllers when it deletes by name.
Foreign(c, kind, name) == {<<c, r.owner, kind>> : r \in {x \in Named(kind, name) : x.owner # c}}

\* Line 28: the default of run_name is an expression in the `def` line, so
\* generate runs once, when the class body is executed.
DefineClass ==
    /\ default_run_name = NoName
    /\ \E t \in Tokens : default_run_name' = t
    /\ UNCHANGED <<run_name, used_default, cpc, provNamed, foreignDeletes>>
    /\ UNCHANGED launchVars

\* What __init__ receives as run_name when the caller passes none (line 28).
DefaultRunName == default_run_name

\* __init__ (lines 26-49) with a supported instance class: line 46.
NewController(c) ==
    /\ default_run_name # NoName
    /\ cpc[c] = "new"
    /\ \E given \in ExplicitNames \cup {NoName} :
        /\ run_name' = [run_name EXCEPT ![c] = IF given = NoName THEN DefaultRunName ELSE given]
        /\ used_default' = [used_default EXCEPT ![c] = (given = NoName)]
    /\ cpc' = [cpc EXCEPT ![c] = "constructed"]
    /\ UNCHANGED <<default_run_name, provNamed, foreignDeletes>>
    /\ UNCHANGED launchVars

\* _create_ec2_key_pair (lines 127-137) at the start of launch: on a name
\* conflict the keypair of that name is deleted and the retry raises
\* AttributeError (line 133), which leaves launch.
CtlCreateKeyPair(c) ==
    /\ cpc[c] = "constructed"
    /\ IF Named("key", run_name[c]) # {}
       THEN /\ provNamed' = DeleteNamed("key", run_name[c])
            /\ foreignDeletes' = foreignDeletes \cup Foreign(c, "key", run_name[c])
            /\ cpc' = [cpc EXCEPT ![c] = "raised"]
       ELSE /\ provNamed' = provNamed \cup {[kind |-> "key", name |-> run_name[c], owner |-> c]}
            /\ cpc' = [cpc EXCEPT ![c] = "has_key"]
            /\ UNCHANGED foreignDeletes
    /\ UNCHANGED <<default_run_name, run_name, used_default>>
    /\ UNCHANGED launchVars

\* _create_ec2_security_group_with_ssh_ingress (lines 139-157): on a name
\* conflict the group of that name is deleted and created anew.
CtlCreateSecurityGroup(c) ==
    /\ cpc[c] = "has_key"
    /\ provNamed' = DeleteNamed("sg", run_name[c])
                        \cup {[kind |-> "sg", name |-> run_name[c], owner |-> c]}
    /\ foreignDeletes' = foreignDeletes \cup Foreign(c, "sg", run_name[c])
    /\ cpc' = [cpc EXCEPT ![c] = "provisioned"]
    /\ UNCHANGED <<default_run_name, run_name, used_default>>
    /\ UNCHANGED launchVars

\* _stop (lines 97-108) at the end of launch: both deletes are by name.
CtlStop(c) ==
    /\ cpc[c] = "provisioned"
    /\ provNamed' = DeleteNamed("key", run_name[c]) \cap DeleteNamed("sg", run_name[c])
    /\ foreignDeletes' = foreignDeletes \cup Foreign(c, "sg", run_name[c])
                             \cup Foreign(c, "key", run_name[c])
    /\ cpc' = [cpc EXCEPT ![c] = "stopped"]
    /\ UNCHANGED <<default_run_name, run_name, used_default>>
    /\ UNCHANGED launchVars

NextIdentity ==
    \/ DefineClass
    \/ \E c \in Controllers : NewController(c)
    \/ \E c \in Controllers : CtlCreateKeyPair(c)
    \/ \E c \in Controllers : CtlCreateSecurityGroup(c)
    \/ \E c \in Controllers : CtlStop(c)

\* The controllers alone: the step-by-step launch stays where it starts.
InitIdentity ==
    /\ Init
    /\ instance_type = Dl1_24xlarge
    /\ source_dir = NoneVal
    /\ provKeys = {}
    /\ provGroups = {}

SpecIdentity == InitIdentity /\ [][NextIdentity]_vars

\* C16: any two controllers constructed without an explicit run name have
\* different run names, and neither ever deletes a keypair or security group
\* the other created.
C16_RunNameUniquePerController ==
    /\ \A c, d \in Controllers :
           (c # d /\ used_default[c] /\ used_default[d]) => run_name[c] # run_name[d]
    /\ \A x \in foreignDeletes : ~(used_default[x[1]] /\ used_default[x[2]])

\* ------------------------------------------------------------- termination
\* The thread of control keeps running: every collaborator call returns or
\* raises, the waits complete, and the channel closes after at most
\* MaxChunks chunks, so a step that can be taken is taken.
SpecLive == Init /\ [][Next]_vars /\ WF_vars(Next)

\* The read just made was the empty one.
EmptyRead ==
    /\ pc = "recv"
    /\ Len(calls') = Len(calls) + 1
    /\ calls'[Len(calls')] = Call("recv", NoError, "")

\* C17: every launch ends, returning or raising; the connection loop makes
\* no attempt after ten failed ones; the streaming loop is left on the first
\* empty read.
C17_LaunchTerminates ==
    /\ <>(Done /\ outcome \in {"returned", "raised"})
    /\ [](Cardinality({i \in Positions("connect") : ~calls[i].ok}) <= 10)
    /\ [][EmptyRead => pc' = "stop_terminate"]_vars

\* A launch that needed several connection attempts and read output until
\* the channel closed has returned.
C17_Witness ==
    /\ Done
    /\ outcome = "returned"
    /\ Count("connect") >= 2
    /\ chunks >= 1
    /\ calls[First("terminate") - 1] = Call("recv", NoError, "")
====
